---- MODULE Spec2Model ----
(***************************************************************************)
(* Model of app.py, a Streamlit dashboard over the QuickFS API.            *)
(*                                                                         *)
(* A JSON value is a record [t, v]: t is the Python type of the decoded    *)
(* value ("none", "num", "str", "list", "dict") and v its content. The     *)
(* extra tag "raise" stands for a Python exception leaving the expression  *)
(* that was evaluated. A Python str is the sequence of its chunks, a chunk  *)
(* being "-" or a maximal run of other characters. Numbers are integers;   *)
(* operating income values are multiples of 100 so that the product with   *)
(* 0.79 is an integer. A cell of the table is the Python value that was    *)
(* put into it: the conversion of None to NaN by pandas is not modelled,   *)
(* both are the absent cell. The payloads have the fields of the provider, *)
(* so none has a field named "nopat_derived".                              *)
(***************************************************************************)
EXTENDS Integers, Sequences, FiniteSets, TLC

\* ------------------------------------------------------------------ bounds
MaxQ == 5
MaxYears == 11
MaxData == 12
MaxHist == 3

\* -------------------------------------------------------- Python / JSON values
None == [t |-> "none", v |-> 0]
Num(n) == [t |-> "num", v |-> n]
StrV(s) == [t |-> "str", v |-> s]
Str == StrV(<<"n/a">>)
Raise == [t |-> "raise", v |-> 0]
JList(s) == [t |-> "list", v |-> s]
JDict(f) == [t |-> "dict", v |-> f]
EmptyDict == JDict(<<>>)
EmptyList == JList(<<>>)

IsNone(x) == x.t = "none"
IsRaise(x) == x.t = "raise"
IsDict(x) == x.t = "dict"
IsList(x) == x.t = "list"

\* k in d, for a dict d
HasKey(d, k) == k \in DOMAIN d.v
\* d.get(k, dflt), for a dict d
DGet(d, k, dflt) == IF HasKey(d, k) THEN d.v[k] ELSE dflt

\* bool(x)
Truthy(x) ==
    CASE x.t = "none" -> FALSE
      [] x.t = "num" -> x.v # 0
      [] x.t = "str" -> TRUE
      [] x.t = "list" -> Len(x.v) > 0
      [] x.t = "dict" -> DOMAIN x.v # {}

\* s[-n:], for a list s
LastN(s, n) == IF Len(s) <= n THEN s ELSE SubSeq(s, Len(s) - n + 1, Len(s))
\* s.reverse()
Reverse(s) == [i \in 1..Len(s) |-> s[Len(s) + 1 - i]]
\* [x for x in s if x is not None]
RECURSIVE NotNone(_)
NotNone(s) ==
    IF s = <<>> THEN <<>>
    ELSE IF IsNone(Head(s)) THEN NotNone(Tail(s))
    ELSE <<Head(s)>> \o NotNone(Tail(s))
\* sum(s): 0 + s[0] + s[1] + ...; adding a str to an int raises TypeError
RECURSIVE PySumFrom(_, _)
PySumFrom(acc, s) ==
    IF s = <<>> THEN Num(acc)
    ELSE IF Head(s).t # "num" THEN Raise
    ELSE PySumFrom(acc + Head(s).v, Tail(s))
PySum(s) == PySumFrom(0, s)

\* ------------------------------------------------------------------ get_ttm
\* first loop: the first k of keys that is a key of fin["ttm"]
RECURSIVE TtmLookup(_, _)
TtmLookup(fin, keys) ==
    IF keys = <<>> THEN [found |-> FALSE, val |-> None]
    ELSE IF ~HasKey(fin, "ttm") THEN TtmLookup(fin, Tail(keys))
    ELSE IF ~IsDict(fin.v["ttm"]) THEN [found |-> TRUE, val |-> Raise]
    ELSE IF HasKey(fin.v["ttm"], Head(keys))
         THEN [found |-> TRUE, val |-> fin.v["ttm"].v[Head(keys)]]
    ELSE TtmLookup(fin, Tail(keys))

\* variant of QuarterlySum that adds the first 4 non-None values
RECURSIVE QuarterlySumFirstFour(_, _)
QuarterlySumFirstFour(q, keys) ==
    IF keys = <<>> THEN None
    ELSE IF ~IsDict(q) THEN Raise
    ELSE IF HasKey(q, Head(keys)) /\ Truthy(q.v[Head(keys)])
         THEN IF ~IsList(q.v[Head(keys)]) THEN Raise ELSE
              LET valid == NotNone(q.v[Head(keys)].v)
              IN IF Len(valid) >= 4 THEN PySum(SubSeq(valid, 1, 4))
                 ELSE QuarterlySumFirstFour(q, Tail(keys))
    ELSE QuarterlySumFirstFour(q, Tail(keys))

\* second loop: sum of the last 4 non-None quarterly values
RECURSIVE QuarterlySum(_, _)
QuarterlySum(q, keys) ==
    IF keys = <<>> THEN None
    ELSE IF ~IsDict(q) THEN Raise
    ELSE IF HasKey(q, Head(keys)) /\ Truthy(q.v[Head(keys)])
         THEN IF ~IsList(q.v[Head(keys)]) THEN Raise ELSE
              LET valid == NotNone(q.v[Head(keys)].v)
              IN IF Len(valid) >= 4 THEN PySum(LastN(valid, 4))
                 ELSE QuarterlySum(q, Tail(keys))
    ELSE QuarterlySum(q, Tail(keys))

\* variant of get_ttm that tries the quarterly sum before the TTM figure
get_ttm_QuarterlyFirst(fin, keys) ==
    LET qsum == QuarterlySum(DGet(fin, "quarterly", EmptyDict), keys)
    IN IF ~IsNone(qsum) THEN qsum ELSE TtmLookup(fin, keys).val

get_ttm(fin, keys) ==
    LET hit == TtmLookup(fin, keys)
    IN IF hit.found THEN hit.val
       ELSE QuarterlySum(DGet(fin, "quarterly", EmptyDict), keys)

\* ---------------------------------------------------- extract_historical_df
years == 10

Labels ==
    <<"Revenue", "Gross Profit", "Operating Profit", "EBITDA", "NOPAT",
      "Net Income", "EPS (Diluted)", "Operating Cash Flow", "Free Cash Flow">>
LabelSet == {Labels[i] : i \in 1..Len(Labels)}

metrics_map ==
    [l \in LabelSet |->
        CASE l = "Revenue" -> <<"revenue">>
          [] l = "Gross Profit" -> <<"gross_profit">>
          [] l = "Operating Profit" -> <<"operating_income">>
          [] l = "EBITDA" -> <<"ebitda">>
          [] l = "NOPAT" -> <<"nopat_derived">>
          [] l = "Net Income" -> <<"net_income">>
          [] l = "EPS (Diluted)" -> <<"eps_diluted">>
          [] l = "Operating Cash Flow" -> <<"cf_cfo", "cfo">>
          [] l = "Free Cash Flow" -> <<"fcf">>]

\* data.get("data", {}).get(name, {})
DataSection(data, name) ==
    LET inner == DGet(data, "data", EmptyDict)
    IN IF ~IsDict(inner) THEN Raise ELSE DGet(inner, name, EmptyDict)

\* d.split("-")[0]
SplitFirst(s) == IF s = <<>> \/ Head(s) = "-" THEN "" ELSE Head(s)

\* [d.split("-")[0] for d in dates]
YearsList(data) ==
    LET meta == DataSection(data, "metadata")
    IN IF ~IsDict(meta) THEN Raise
       ELSE LET dates == DGet(meta, "period_end_date", EmptyList)
            IN IF ~IsList(dates) THEN Raise
               ELSE IF \E i \in 1..Len(dates.v) : dates.v[i].t # "str" THEN Raise
               ELSE JList([i \in 1..Len(dates.v) |-> SplitFirst(dates.v[i].v)])

\* op - tax
PySub(a, b) == IF a.t = "num" /\ b.t = "num" THEN Num(a.v - b.v) ELSE Raise
\* op * 0.79
PyMul079(a) == IF a.t = "num" THEN Num((a.v * 79) \div 100) ELSE Raise
\* x or 0
OrZero(x) == IF Truthy(x) THEN x ELSE Num(0)

\* variant of TtmCell that applies the flat rate whatever the income tax
TtmCellFlatRate(fin, label) ==
    LET ttm_val == get_ttm(fin, metrics_map[label])
    IN IF label = "NOPAT" /\ IsNone(ttm_val)
       THEN LET op == get_ttm(fin, <<"operating_income">>)
            IN IF IsRaise(op) THEN Raise
               ELSE IF ~IsNone(op) THEN PyMul079(op)
               ELSE ttm_val
       ELSE ttm_val

\* the TTM cell of a row
TtmCell(fin, label) ==
    LET ttm_val == get_ttm(fin, metrics_map[label])
    IN IF label = "NOPAT" /\ IsNone(ttm_val)
       THEN LET op == get_ttm(fin, <<"operating_income">>)
                tax == get_ttm(fin, <<"income_tax">>)
            IN IF IsRaise(op) \/ IsRaise(tax) THEN Raise
               ELSE IF ~IsNone(op)
                    THEN (IF ~IsNone(tax) THEN PySub(op, tax) ELSE PyMul079(op))
               ELSE ttm_val
       ELSE ttm_val

\* next((k for k in keys if k in annual), None); "" stands for None
RECURSIVE ValidKey(_, _)
ValidKey(annual, keys) ==
    IF keys = <<>> THEN ""
    ELSE IF HasKey(annual, Head(keys)) THEN Head(keys)
    ELSE ValidKey(annual, Tail(keys))

\* the NOPAT history fallback: operating income minus income tax per index
NopatHistory(annual) ==
    LET op_hist == DGet(annual, "operating_income", EmptyList)
        tax_hist == DGet(annual, "income_tax", EmptyList)
    IN IF ~IsList(op_hist) THEN Raise
       ELSE JList([i \in 1..Len(op_hist.v) |->
                LET d == IF IsList(tax_hist) /\ i <= Len(tax_hist.v)
                         THEN PySub(OrZero(op_hist.v[i]), OrZero(tax_hist.v[i]))
                         ELSE Raise
                IN IF IsRaise(d) THEN None ELSE d])

\* variant of HistoryCells that keeps the cells oldest first
HistoryCellsOldestFirst(annual, label) ==
    IF ~IsDict(annual) THEN Raise
    ELSE LET valid_key == ValidKey(annual, metrics_map[label])
         IN IF valid_key # ""
            THEN LET annual_vals == annual.v[valid_key]
                 IN IF ~IsList(annual_vals) THEN Raise
                    ELSE JList(LastN(annual_vals.v, years))
            ELSE JList([i \in 1..years |-> None])

\* the cells of a row after the TTM cell, newest first
HistoryCells(annual, label) ==
    IF ~IsDict(annual) THEN Raise
    ELSE LET valid_key == ValidKey(annual, metrics_map[label])
         IN IF valid_key # ""
            THEN LET annual_vals ==
                         IF label = "NOPAT" /\ valid_key = ""
                         THEN NopatHistory(annual)
                         ELSE annual.v[valid_key]
                 IN IF ~IsList(annual_vals) THEN Raise
                    ELSE JList(Reverse(LastN(annual_vals.v, years)))
            ELSE JList([i \in 1..years |-> None])

\* row_data of a label
RowData(fin, label) ==
    LET ttm_val == TtmCell(fin, label)
        hist == HistoryCells(DGet(fin, "annual", EmptyDict), label)
    IN IF IsRaise(ttm_val) \/ IsRaise(hist) THEN Raise
       ELSE JList(<<ttm_val>> \o hist.v)

\* variant of Columns with the years in payload order and TTM last
ColumnsTtmLast(years_list) == LastN(years_list, years) \o <<"TTM">>

\* cols = ["TTM"] + reversed(years_list[-years:])
Columns(years_list) == <<"TTM">> \o Reverse(LastN(years_list, years))

\* pad with None, or cut, to the number of columns
PadRow(v, n) ==
    IF Len(v) < n THEN v \o [i \in 1..(n - Len(v)) |-> None]
    ELSE SubSeq(v, 1, n)

EmptyDF == [empty |-> TRUE, cols |-> <<>>, rows |-> [l \in LabelSet |-> <<>>]]

extract_historical_df(data) ==
    LET fin == DataSection(data, "financials")
    IN IF ~IsDict(fin) THEN EmptyDF
       ELSE LET years_list == YearsList(data)
            IN IF IsRaise(years_list) THEN EmptyDF
               ELSE IF \E l \in LabelSet : IsRaise(RowData(fin, l)) THEN EmptyDF
               ELSE LET cols == Columns(years_list.v)
                    IN [empty |-> FALSE,
                        cols |-> cols,
                        rows |-> [l \in LabelSet |->
                                    PadRow(RowData(fin, l).v, Len(cols))]]

\* ------------------------------------------------------------ format_currency
format_currency(value) ==
    IF IsNone(value) THEN StrV(<<"N/A">>)
    ELSE IF value.t # "num" THEN Raise
    ELSE LET abs_val == IF value.v < 0 THEN -value.v ELSE value.v
         IN IF abs_val >= 1000000000 THEN StrV(<<"B">>)
            ELSE IF abs_val >= 1000000 THEN StrV(<<"M">>)
            ELSE StrV(<<"plain">>)

\* f"{curr_sym}{eps:.2f}" if eps else "N/A"
FormatEps(eps) ==
    IF ~Truthy(eps) THEN StrV(<<"N/A">>)
    ELSE IF eps.t # "num" THEN Raise
    ELSE StrV(<<"plain">>)

\* ------------------------------------------------------------------ state
VARIABLES
    dark_mode,        \* st.session_state.dark_mode
    search_input,     \* the ticker text input
    selected_example, \* the preset selectbox
    selected_period,  \* the period selectbox
    pc,               \* position of the script run
    attempt,          \* loop variable of fetch_quickfs_data
    statuses,         \* the responses received by the current fetch call
    errors,           \* the st.error messages of the current run
    json_data,        \* result of fetch_quickfs_data
    df_history,       \* result of extract_historical_df
    cards,            \* the formatted TTM cards that were rendered
    outcome,          \* how the last run ended
    keys_in,          \* argument of a get_ttm call
    ttm_out           \* result of a get_ttm call

vars == <<dark_mode, search_input, selected_example, selected_period, pc,
          attempt, statuses, errors, json_data, df_history, cards, outcome,
          keys_in, ttm_out>>

retries == 2

EXAMPLE_STOCKS ==
    [e \in {"DNP (Warsaw)", "Ashtead Group (London)", "APi Group (USA)"} |->
        CASE e = "DNP (Warsaw)" -> "DNP:PL"
          [] e = "Ashtead Group (London)" -> "AHT:LN"
          [] e = "APi Group (USA)" -> "APG:US"]

CustomSearch == "(Custom Search)"
TtmView == "TTM (Current Snapshot)"
HistoryView == "10-Year Overview"

target_ticker ==
    IF search_input # "" THEN search_input
    ELSE IF selected_example # CustomSearch THEN EXAMPLE_STOCKS[selected_example]
    ELSE "DNP:PL"

NoCards == [l \in LabelSet |-> None]

\* ------------------------------------------------------- fetch_quickfs_data
\* a response of requests.get: an HTTP status with a decoded body, or a
\* RequestException (code 0)
Transport == 0
StatusCodes == {200, 403, 404, 500, 503}
HttpResponse(code, body) == [code |-> code, body |-> body]
TransportFailure == HttpResponse(Transport, None)

\* variant of IsServerError that also takes client errors for transient
IsServerErrorFrom400(code) == code >= 400
IsServerError(code) == code >= 500
\* variant of MayRetry that retries on the last attempt too
MayRetryAlways(att) == att <= retries
MayRetry(att) == att < retries

\* one iteration of the loop: what the call does with a response
FetchOutcome(att, resp) ==
    IF resp.code = Transport
    THEN [done |-> TRUE, result |-> None, err |-> "connection"]
    ELSE IF resp.code = 200
    THEN [done |-> TRUE, result |-> resp.body, err |-> ""]
    ELSE IF IsServerError(resp.code)
    THEN (IF MayRetry(att)
          THEN [done |-> FALSE, result |-> None, err |-> ""]
          ELSE [done |-> TRUE, result |-> None, err |-> "server"])
    ELSE IF resp.code = 404
    THEN [done |-> TRUE, result |-> None, err |-> "notfound"]
    ELSE [done |-> TRUE, result |-> None, err |-> "status"]

\* variant of Assigned that keeps the earlier payload when the call fails
AssignedKeepOnFailure(old, result) == IF IsNone(result) THEN old ELSE result
\* json_data = fetch_quickfs_data(...): what the run holds after the call
Assigned(old, result) == result

Request(resp) ==
    /\ pc = "fetch"
    /\ attempt <= retries
    /\ statuses' = Append(statuses, resp.code)
    /\ LET o == FetchOutcome(attempt, resp)
       IN IF o.done
          THEN /\ json_data' = Assigned(json_data, o.result)
               /\ errors' = IF o.err = "" THEN errors ELSE Append(errors, o.err)
               /\ pc' = "fetched"
               /\ attempt' = attempt
          ELSE IF attempt < retries
          THEN /\ attempt' = attempt + 1
               /\ UNCHANGED <<json_data, errors, pc>>
          ELSE /\ json_data' = Assigned(json_data, None)
               /\ pc' = "fetched"
               /\ UNCHANGED <<attempt, errors>>
    /\ UNCHANGED <<dark_mode, search_input, selected_example, selected_period,
                   df_history, cards, outcome, keys_in, ttm_out>>

\* ------------------------------------------------------------------ main flow
\* curr_sym = "$" if currency == "USD" else (currency + " ")
CurrSym(meta) ==
    LET currency == DGet(meta, "currency", StrV(<<"USD">>))
    IN IF currency.t # "str" THEN Raise
       ELSE IF currency.v = <<"USD">> THEN StrV(<<"$">>)
       ELSE StrV(currency.v \o <<" ">>)

\* lines 254-256: the metadata and the currency symbol
Header(data) ==
    IF ~IsDict(data) THEN Raise
    ELSE LET meta == DataSection(data, "metadata")
         IN IF ~IsDict(meta) THEN Raise ELSE CurrSym(meta)

\* get_val(lbl)
get_val(df, lbl) == IF ~df.empty /\ lbl \in DOMAIN df.rows THEN df.rows[lbl][1] ELSE None

\* the cards of the TTM view
TtmCards(df) ==
    [l \in LabelSet |->
        IF l = "EPS (Diluted)" THEN FormatEps(get_val(df, l))
        ELSE format_currency(get_val(df, l))]

\* the raw data table: format_currency on every cell that is not null
RawTableRaises(df) ==
    /\ ~df.empty
    /\ \E l \in LabelSet : \E i \in 1..Len(df.cols) :
          ~IsNone(df.rows[l][i]) /\ IsRaise(format_currency(df.rows[l][i]))

\* the rest of the script after the fetch
Render ==
    /\ pc = "fetched"
    /\ pc' = "done"
    /\ IF ~Truthy(json_data)
       THEN /\ outcome' = "nodata"
            /\ UNCHANGED <<df_history, cards>>
       ELSE IF IsRaise(Header(json_data))
       THEN /\ outcome' = "crashed"
            /\ UNCHANGED <<df_history, cards>>
       ELSE LET df == extract_historical_df(json_data)
            IN /\ df_history' = df
               /\ IF selected_period = TtmView
                  THEN /\ cards' = TtmCards(df)
                       /\ outcome' =
                            IF \/ \E l \in LabelSet : IsRaise(TtmCards(df)[l])
                               \/ RawTableRaises(df)
                            THEN "crashed" ELSE "rendered"
                  ELSE /\ cards' = NoCards
                       /\ outcome' = IF RawTableRaises(df) THEN "crashed"
                                     ELSE "rendered"
    /\ UNCHANGED <<dark_mode, search_input, selected_example, selected_period,
                   attempt, statuses, errors, json_data, keys_in, ttm_out>>

\* every widget change reruns the script from the top
StartRun ==
    /\ pc = "done"
    /\ pc' = "fetch"
    /\ attempt' = 0
    /\ statuses' = <<>>
    /\ errors' = <<>>
    /\ UNCHANGED <<json_data, df_history, cards, outcome, keys_in, ttm_out>>

toggle_dark_mode ==
    /\ StartRun
    /\ dark_mode' = ~dark_mode
    /\ UNCHANGED <<search_input, selected_example, selected_period>>

SetSearch(s) ==
    /\ StartRun
    /\ search_input' = s
    /\ search_input' # search_input
    /\ UNCHANGED <<dark_mode, selected_example, selected_period>>

SelectExample(e) ==
    /\ StartRun
    /\ selected_example' = e
    /\ selected_example' # selected_example
    /\ UNCHANGED <<dark_mode, search_input, selected_period>>

SelectPeriod(p) ==
    /\ StartRun
    /\ selected_period' = p
    /\ selected_period' # selected_period
    /\ UNCHANGED <<dark_mode, search_input, selected_example>>

\* a call of the helper get_ttm on its own
CallGetTtm ==
    /\ pc = "call"
    /\ pc' = "returned"
    /\ ttm_out' = get_ttm(DataSection(json_data, "financials"), keys_in)
    /\ UNCHANGED <<dark_mode, search_input, selected_example, selected_period,
                   attempt, statuses, errors, json_data, df_history, cards,
                   outcome, keys_in>>

\* ------------------------------------------------------------ payloads
Missing == [t |-> "missing", v |-> 0]
\* the dict of the entries of opt that are not Missing
FromOptions(opt) == JDict([k \in {x \in DOMAIN opt : opt[x].t # "missing"} |-> opt[k]])
OrMissing(S) == S \cup {Missing}

Payload(meta, fin) ==
    JDict([k \in {"data"} |->
        FromOptions([x \in {"metadata", "financials"} |->
                        IF x = "metadata" THEN meta ELSE fin])])

YearNames ==
    <<"2010", "2011", "2012", "2013", "2014", "2015", "2016", "2017",
      "2018", "2019", "2020", "2021", "2022", "2023", "2024", "2025">>
YearDate(i) == StrV(<<YearNames[i], "-", "12", "-", "31">>)
\* Y period end dates, oldest first or newest first
Dates(Y, ascending) ==
    JList([i \in 1..Y |-> IF ascending THEN YearDate(i) ELSE YearDate(Y + 1 - i)])
Meta(dates) == JDict([k \in {"name", "currency", "period_end_date"} |->
                        CASE k = "name" -> StrV(<<"DNP">>)
                          [] k = "currency" -> StrV(<<"PLN">>)
                          [] k = "period_end_date" -> dates])

RECURSIVE Pow2(_)
Pow2(n) == IF n = 0 THEN 1 ELSE 2 * Pow2(n - 1)

\* an annual array of D numbers, the i-th being base + i
AnnualArr(base, D) == JList([i \in 1..D |-> Num(base + i)])
AnnualArrs(base, maxD) == {AnnualArr(base, D) : D \in 0..maxD}

\* the arrays of at most maxL entries over the values vals
ArraysOver(vals, maxL) ==
    UNION {{JList(a) : a \in [1..L -> vals]} : L \in 0..maxL}

\* the quarterly arrays of at most maxL entries whose i-th entry is absent
\* or base * 2^(i-1), so that a sum tells which entries were added
QuarterlyArrs(base, maxL) ==
    UNION {{JList([i \in 1..L |-> IF b[i] THEN Num(base * Pow2(i - 1)) ELSE None])
              : b \in [1..L -> BOOLEAN]} : L \in 0..maxL}

Fin(annual, quarterly, ttm) ==
    FromOptions([k \in {"annual", "quarterly", "ttm"} |->
        CASE k = "annual" -> annual
          [] k = "quarterly" -> quarterly
          [] k = "ttm" -> ttm])

\* payloads for the calls of get_ttm
TtmPayloads ==
    {Payload(Missing,
             Fin(Missing,
                 FromOptions([k \in {"cf_cfo", "cfo"} |-> IF k = "cf_cfo" THEN q1 ELSE q2]),
                 FromOptions([k \in {"cf_cfo", "cfo"} |-> IF k = "cf_cfo" THEN t1 ELSE t2])))
       : q1 \in OrMissing(QuarterlyArrs(1, MaxQ) \cup {None}),
         q2 \in OrMissing(QuarterlyArrs(1000, MaxQ)),
         t1 \in {Missing, None, Num(5)},
         t2 \in {Missing, Num(7)}}
KeyLists == {<<"cf_cfo", "cfo">>, <<"cfo", "cf_cfo">>, <<"cfo">>}

\* payloads whose annual arrays and period end dates differ in length
AlignPayloads ==
    {Payload(Meta(Dates(Y, asc)),
             Fin(FromOptions([k \in {"revenue", "cf_cfo", "cfo"} |->
                     CASE k = "revenue" -> a1
                       [] k = "cf_cfo" -> a2
                       [] k = "cfo" -> a3]),
                 Missing, Missing))
       : Y \in 0..MaxYears, asc \in BOOLEAN,
         a1 \in OrMissing(AnnualArrs(100, MaxData)),
         a2 \in {Missing, AnnualArr(200, 2)},
         a3 \in OrMissing(AnnualArrs(300, MaxData))}

\* payloads with annual operating income and income tax
NopatPayloads ==
    {Payload(Meta(Dates(Y, TRUE)),
             Fin(FromOptions([k \in {"operating_income", "income_tax"} |->
                     IF k = "operating_income" THEN op ELSE tax]),
                 Missing, Missing))
       : Y \in 0..MaxHist,
         op \in OrMissing(ArraysOver({None, Num(100), Num(200)}, MaxHist)),
         tax \in OrMissing(ArraysOver({None, Num(21)}, MaxHist))}

\* payloads with trailing-twelve-month and quarterly figures
TtmColPayloads ==
    {Payload(Meta(Dates(2, TRUE)),
             Fin(Missing,
                 FromOptions([k \in {"operating_income", "income_tax", "cfo"} |->
                     CASE k = "operating_income" -> qop
                       [] k = "income_tax" -> qtax
                       [] k = "cfo" -> qcfo]),
                 FromOptions([k \in {"revenue", "operating_income", "income_tax",
                                     "cf_cfo", "cfo"} |->
                     CASE k = "revenue" -> trev
                       [] k = "operating_income" -> top
                       [] k = "income_tax" -> ttax
                       [] k = "cf_cfo" -> t1
                       [] k = "cfo" -> t2])))
       : qop \in {Missing, JList(<<Num(100), Num(200), Num(300)>>),
                  JList(<<Num(100), None, Num(200), Num(300), Num(400)>>),
                  JList(<<Num(100), Num(200), Num(300), Num(400), Num(500)>>)},
         qtax \in {Missing, JList(<<Num(21), Num(21), Num(21), Num(21)>>),
                   JList(<<None, Num(21)>>)},
         qcfo \in {Missing, JList(<<Num(1), Num(1), Num(1), Num(1)>>)},
         trev \in {Missing, Num(9)},
         top \in {Missing, None, Num(300)},
         ttax \in {Missing, None, Num(40)},
         t1 \in {Missing, Num(5)},
         t2 \in {Missing, Num(7)}}

\* payloads with missing, null and wrong-typed parts
ShapeMetas ==
    {Missing, None} \cup
    {FromOptions([k \in {"currency", "period_end_date"} |->
                    IF k = "currency" THEN c ELSE d])
       : c \in {Missing, None, StrV(<<"USD">>), StrV(<<"PLN">>)},
         d \in {Missing, None, Dates(2, TRUE), JList(<<YearDate(1), None>>),
                JList(<<StrV(<<"N/A">>), YearDate(2)>>)}}
ShapeFins ==
    {Missing, None} \cup
    {Fin(a, q, t)
       : a \in {Missing, None} \cup
               {JDict([k \in {"revenue"} |-> x])
                  : x \in {None, JList(<<Num(1), Str>>), JList(<<Num(1), None>>)}},
         q \in {Missing, None} \cup
               {JDict([k \in {"revenue"} |-> x])
                  : x \in {None, JList(<<Str, Str, Str, Str>>),
                           JList(<<Num(1), Num(2), Num(3), Num(4)>>)}},
         t \in {Missing, None} \cup
               {FromOptions([k \in {"revenue", "eps_diluted"} |->
                               IF k = "revenue" THEN y ELSE e])
                  : y \in {None, Num(9), Str}, e \in {Missing, Num(0), Str}}}
ShapePayloads ==
    {EmptyDict, JDict([k \in {"data"} |-> None])} \cup
    {Payload(m, f) : m \in ShapeMetas, f \in ShapeFins}

\* the payloads the provider answers with in the interactive runs
GoodPayload ==
    Payload(Meta(Dates(2, TRUE)),
            Fin(JDict([k \in {"revenue"} |-> AnnualArr(100, 2)]),
                Missing,
                JDict([k \in {"revenue"} |-> Num(9)])))
OtherPayload ==
    Payload(Meta(Dates(1, TRUE)),
            Fin(Missing, Missing, JDict([k \in {"revenue"} |-> Num(4)])))
SamplePayloads == {GoodPayload, OtherPayload, EmptyDict}
Responses ==
    {HttpResponse(200, b) : b \in SamplePayloads}
    \cup {HttpResponse(c, None) : c \in StatusCodes \ {200}}
    \cup {TransportFailure}

\* ------------------------------------------------------------ specifications
InitWidgets ==
    /\ dark_mode = FALSE
    /\ search_input = ""
    /\ selected_example = CustomSearch
    /\ attempt = 0
    /\ errors = <<>>
    /\ df_history = EmptyDF
    /\ cards = NoCards
    /\ outcome = "none"
    /\ ttm_out = None

\* the first run of the script
Init ==
    /\ InitWidgets
    /\ selected_period = TtmView
    /\ pc = "fetch"
    /\ statuses = <<>>
    /\ json_data = None
    /\ keys_in = <<>>

Next ==
    \/ toggle_dark_mode
    \/ \E s \in {"", "AAPL:US"} : SetSearch(s)
    \/ \E e \in {CustomSearch} \cup DOMAIN EXAMPLE_STOCKS : SelectExample(e)
    \/ \E p \in {TtmView, HistoryView} : SelectPeriod(p)
    \/ \E r \in Responses : Request(r)
    \/ Render

Spec == Init /\ [][Next]_vars

\* one call of fetch_quickfs_data, at the start of a rerun that follows a
\* run which held json_data
InitFetch ==
    /\ dark_mode \in BOOLEAN
    /\ search_input \in {"", "AAPL:US"}
    /\ selected_example = CustomSearch
    /\ selected_period \in {TtmView, HistoryView}
    /\ pc = "fetch"
    /\ attempt = 0
    /\ statuses = <<>>
    /\ errors = <<>>
    /\ json_data \in SamplePayloads \cup {None}
    /\ df_history = IF Truthy(json_data) THEN extract_historical_df(json_data) ELSE EmptyDF
    /\ cards = IF Truthy(json_data) /\ selected_period = TtmView
               THEN TtmCards(df_history) ELSE NoCards
    /\ outcome = IF Truthy(json_data) THEN "rendered" ELSE "nodata"
    /\ keys_in = <<>>
    /\ ttm_out = None

NextFetch == \E r \in Responses : Request(r)

\* requests.get returns, so the loop goes on
SpecFetch == InitFetch /\ [][NextFetch]_vars /\ WF_vars(NextFetch)

\* the script after a fetch that returned one of the payloads of P
InitFetched(P, periods) ==
    /\ InitWidgets
    /\ selected_period \in periods
    /\ pc = "fetched"
    /\ statuses = <<200>>
    /\ json_data \in P
    /\ keys_in = <<>>

NextRender == Render

InitAlign == InitFetched(AlignPayloads, {HistoryView})
SpecAlign == InitAlign /\ [][NextRender]_vars

InitNopat == InitFetched(NopatPayloads, {HistoryView})
SpecNopat == InitNopat /\ [][NextRender]_vars

InitTtmCol == InitFetched(TtmColPayloads, {TtmView})
SpecTtmCol == InitTtmCol /\ [][NextRender]_vars

InitShape == InitFetched(ShapePayloads, {TtmView, HistoryView})
SpecShape == InitShape /\ [][NextRender]_vars

\* calls of get_ttm
InitTtm ==
    /\ InitWidgets
    /\ selected_period = TtmView
    /\ pc = "call"
    /\ statuses = <<>>
    /\ json_data \in TtmPayloads
    /\ keys_in \in KeyLists

NextTtm == CallGetTtm

SpecTtm == InitTtm /\ [][NextTtm]_vars

\* ------------------------------------------------ reading payload and table
\* the script ran to its end and extract_historical_df built a table
Built == pc = "done" /\ ~df_history.empty

PeriodEndDates == json_data.v["data"].v["metadata"].v["period_end_date"].v
NumYears == Len(PeriodEndDates)
\* the fiscal year of the j-th period end date
YearLabel(j) == PeriodEndDates[j].v[1]
YearNum(name) ==
    IF \E i \in 1..Len(YearNames) : YearNames[i] = name
    THEN 2009 + (CHOOSE i \in 1..Len(YearNames) : YearNames[i] = name)
    ELSE 0
OldestFirst ==
    \A i, j \in 1..NumYears : i < j => YearNum(YearLabel(i)) < YearNum(YearLabel(j))

HasCol(name) == \E c \in 1..Len(df_history.cols) : df_history.cols[c] = name
ColIndex(name) == CHOOSE c \in 1..Len(df_history.cols) : df_history.cols[c] = name
CellAt(label, name) == df_history.rows[label][ColIndex(name)]
\* the indices of the period end dates whose year is a column
DisplayedYears == {j \in 1..NumYears : HasCol(YearLabel(j))}
\* the number of fiscal years in the table
Window == IF NumYears < years THEN NumYears ELSE years

AnnualIn == json_data.v["data"].v["financials"].v["annual"].v
\* the labels with a candidate field in financials.annual, and that field
FieldLabels ==
    {l \in LabelSet : \E i \in 1..Len(metrics_map[l]) : metrics_map[l][i] \in DOMAIN AnnualIn}
FieldOf(l) ==
    LET ks == metrics_map[l]
        i == CHOOSE n \in 1..Len(ks) :
                ks[n] \in DOMAIN AnnualIn /\ \A m \in 1..(n - 1) : ks[m] \notin DOMAIN AnnualIn
    IN AnnualIn[ks[i]].v

\* ------------------------------------------------------------------ C1
\* C1 as stated: every annual field is right-aligned against the whole years
\* list: with Y years and D <= Y elements, element i is under year Y-D+i and
\* the Y-D oldest displayed years are absent; with D > Y the last Y elements
\* are used, the last one under the most recent year.
C1_AlignedToAllYears ==
    Built =>
      \A l \in FieldLabels :
        LET arr == FieldOf(l)
            D == Len(arr)
            Y == NumYears
        IN IF D <= Y
           THEN /\ \A i \in 1..D :
                     HasCol(YearLabel(Y - D + i)) /\ CellAt(l, YearLabel(Y - D + i)) = arr[i]
                /\ \A j \in DisplayedYears :
                     Cardinality({k \in DisplayedYears : k < j}) < Y - D
                        => IsNone(CellAt(l, YearLabel(j)))
           ELSE \A j \in 1..Y :
                     HasCol(YearLabel(j)) /\ CellAt(l, YearLabel(j)) = arr[D - Y + j]

\* C1 amended: the table shows the last min(Y, 10) years; under each shown
\* year j an annual field with D elements has its element D-Y+j, and the
\* cell is absent when that element does not exist (j <= Y-D).
C1_AlignedInWindow ==
    Built =>
      \A l \in FieldLabels :
        LET arr == FieldOf(l)
            D == Len(arr)
            Y == NumYears
        IN /\ DisplayedYears = {j \in 1..Y : j > Y - years}
           /\ \A j \in DisplayedYears :
                CellAt(l, YearLabel(j)) = IF D - Y + j >= 1 THEN arr[D - Y + j] ELSE None

\* a table over more than 10 years with a shorter, non-empty revenue array
C1_Witness ==
    /\ Built
    /\ NumYears > years
    /\ "revenue" \in DOMAIN AnnualIn
    /\ Len(AnnualIn["revenue"].v) < NumYears
    /\ Len(AnnualIn["revenue"].v) >= years
    /\ "cfo" \in DOMAIN AnnualIn
    /\ Len(AnnualIn["cfo"].v) = 2

\* ------------------------------------------------------------------ C6
\* C6 as stated: the columns are the fiscal years in ascending order and the
\* TTM column comes last.
C6_AscendingTtmLast ==
    Built =>
      LET n == Len(df_history.cols)
      IN /\ df_history.cols[n] = "TTM"
         /\ \A c, d \in 1..(n - 1) :
              c < d => YearNum(df_history.cols[c]) < YearNum(df_history.cols[d])

\* C6 amended: the first column is TTM; after it come the last min(Y, 10)
\* fiscal years in the reverse of their payload order, which is descending
\* order when period_end_date is oldest first.
C6_TtmFirstNewestFirst ==
    Built =>
      LET n == Len(df_history.cols)
      IN /\ n = 1 + Window
         /\ df_history.cols[1] = "TTM"
         /\ \A c \in 1..Window : df_history.cols[1 + c] = YearLabel(NumYears + 1 - c)
         /\ OldestFirst =>
              \A c, d \in 2..n :
                c < d => YearNum(df_history.cols[c]) > YearNum(df_history.cols[d])

\* a table over more than 10 years listed oldest first
C6_Witness ==
    /\ Built
    /\ NumYears > years
    /\ OldestFirst

\* ------------------------------------------------ the resolution rule
FinIn == json_data.v["data"].v["financials"].v
TtmIn == IF "ttm" \in DOMAIN FinIn THEN FinIn["ttm"].v ELSE <<>>
QuarterlyIn == IF "quarterly" \in DOMAIN FinIn THEN FinIn["quarterly"].v ELSE <<>>
InTtm(k) == k \in DOMAIN TtmIn
\* the positions of the non-absent values of a quarterly array
ValidAt(arr) == {i \in 1..Len(arr) : ~IsNone(arr[i])}
\* the positions of its last 4 non-absent values
LastFour(arr) == {i \in ValidAt(arr) : Cardinality({j \in ValidAt(arr) : j > i}) < 4}
RECURSIVE SumOver(_, _)
SumOver(arr, S) ==
    IF S = {} THEN 0
    ELSE LET i == CHOOSE x \in S : TRUE IN arr[i].v + SumOver(arr, S \ {i})
\* k has at least 4 non-absent quarterly values
Enough(k) ==
    /\ k \in DOMAIN QuarterlyIn
    /\ IsList(QuarterlyIn[k])
    /\ Cardinality(ValidAt(QuarterlyIn[k].v)) >= 4
\* the first key of keys for which P holds
FirstKey(keys, P(_)) ==
    keys[CHOOSE n \in 1..Len(keys) : P(keys[n]) /\ \A m \in 1..(n - 1) : ~P(keys[m])]
AnyKey(keys, P(_)) == \E n \in 1..Len(keys) : P(keys[n])
\* what the resolution rule gives for the candidates keys
Resolved(keys) ==
    IF AnyKey(keys, InTtm) THEN TtmIn[FirstKey(keys, InTtm)]
    ELSE IF AnyKey(keys, Enough)
         THEN LET arr == QuarterlyIn[FirstKey(keys, Enough)].v
              IN Num(SumOver(arr, LastFour(arr)))
    ELSE None

Returned == pc = "returned"

\* ------------------------------------------------------------------ C2
\* C2: when a candidate is a key of financials.ttm, get_ttm returns the ttm
\* entry of the first such candidate, whatever financials.quarterly holds.
C2_TtmFirstMatch ==
    Returned /\ AnyKey(keys_in, InTtm) => ttm_out = TtmIn[FirstKey(keys_in, InTtm)]

\* both candidates have a ttm entry and the first also has 4 quarterly values
C2_Witness ==
    /\ Returned
    /\ keys_in = <<"cf_cfo", "cfo">>
    /\ InTtm("cf_cfo") /\ InTtm("cfo")
    /\ Enough("cf_cfo")
    /\ ttm_out = Num(5)

\* ------------------------------------------------------------------ C3
\* C3: when no candidate is a key of financials.ttm, get_ttm returns the sum
\* of the last 4 non-absent quarterly values of the first candidate that has
\* at least 4 of them, and absent when no candidate has.
C3_QuarterlyFallback ==
    Returned /\ ~AnyKey(keys_in, InTtm) =>
      ttm_out = IF AnyKey(keys_in, Enough)
                THEN LET arr == QuarterlyIn[FirstKey(keys_in, Enough)].v
                     IN Num(SumOver(arr, LastFour(arr)))
                ELSE None

\* the first candidate has too few values, the second has 5 and its last 4
\* are added
C3_Witness ==
    /\ Returned
    /\ keys_in = <<"cf_cfo", "cfo">>
    /\ ~InTtm("cf_cfo") /\ ~InTtm("cfo")
    /\ "cf_cfo" \in DOMAIN QuarterlyIn /\ ~Enough("cf_cfo")
    /\ Enough("cfo")
    /\ Cardinality(ValidAt(QuarterlyIn["cfo"].v)) = 5
    /\ ttm_out = Num(30000)

\* ------------------------------------------------------------------ C5
\* C5: the TTM column holds, for each of the eight metrics other than NOPAT,
\* what the resolution rule gives for the metric's candidates; the NOPAT cell
\* under TTM is the resolved operating income minus the resolved income tax,
\* or the operating income times 0.79 when the tax does not resolve, or
\* absent when the operating income does not resolve.
C5_TtmColumn ==
    Built =>
      /\ \A l \in LabelSet \ {"NOPAT"} : CellAt(l, "TTM") = Resolved(metrics_map[l])
      /\ LET op == Resolved(<<"operating_income">>)
             tax == Resolved(<<"income_tax">>)
         IN CellAt("NOPAT", "TTM") =
              IF IsNone(op) THEN None
              ELSE IF IsNone(tax) THEN Num((op.v * 79) \div 100)
              ELSE Num(op.v - tax.v)

\* operating income resolves by the quarterly sum and income tax by its ttm
\* entry
C5_Witness ==
    /\ Built
    /\ CellAt("Operating Profit", "TTM") = Num(1000)
    /\ CellAt("NOPAT", "TTM") = Num(960)
    /\ CellAt("Operating Cash Flow", "TTM") = Num(5)

\* ------------------------------------------------------------------ C4
\* the income tax of the j-th period, right-aligned like every annual field
TaxAt(j) ==
    IF "income_tax" \in DOMAIN AnnualIn
    THEN LET arr == AnnualIn["income_tax"].v
             i == Len(arr) - NumYears + j
         IN IF i >= 1 THEN arr[i] ELSE None
    ELSE None

\* C4: under every fiscal year the NOPAT cell is operating income minus
\* income tax when both are present for the period, operating income times
\* 0.79 when only operating income is present, absent otherwise.
C4_AnnualNopat ==
    Built =>
      \A j \in DisplayedYears :
        LET op == CellAt("Operating Profit", YearLabel(j))
            tax == TaxAt(j)
        IN CellAt("NOPAT", YearLabel(j)) =
             IF IsNone(op) THEN None
             ELSE IF IsNone(tax) THEN Num((op.v * 79) \div 100)
             ELSE Num(op.v - tax.v)

\* ------------------------------------------------------------------ C10
\* C10: once the fetch has returned a payload, the run never ends in an
\* uncaught exception, whatever the shape of the payload.
C10_NoUncaughtException == pc = "done" => outcome \in {"rendered", "nodata"}

\* ------------------------------------------------------------------ C7
FetchOver == pc \in {"fetched", "done"}
AllServerErrors == \A i \in 1..Len(statuses) : statuses[i] >= 500

C7_Bounded ==
    /\ Len(statuses) <= 3
    /\ \A i \in 1..(Len(statuses) - 1) : statuses[i] >= 500
    /\ Len(statuses) = 3 /\ AllServerErrors =>
          FetchOver /\ errors = <<"server">> /\ IsNone(json_data)
    /\ FetchOver =>
          \/ errors = <<>> /\ statuses[Len(statuses)] = 200 /\ json_data \in SamplePayloads
          \/ Len(errors) = 1 /\ IsNone(json_data)

\* C7: a call of fetch_quickfs_data issues at most 3 requests, a further one
\* only after a 5xx response; after three 5xx responses it reports a server
\* error and returns no payload; the call always ends, with a payload or
\* with one reported failure.
C7_BoundedRetry == [](C7_Bounded) /\ (pc = "fetch" ~> pc = "fetched")

\* three 5xx responses in a row
C7_Witness ==
    /\ pc = "fetched"
    /\ Len(statuses) = 3
    /\ AllServerErrors
    /\ errors = <<"server">>

\* ------------------------------------------------------------------ C8
\* C8: a 404, another non-200 status below 500 or a transport failure is the
\* last response of its call, on whichever attempt it comes: no request
\* follows it, exactly one failure is reported and no payload is returned.
C8_NoRetryOfTerminal ==
    \A i \in 1..Len(statuses) :
      statuses[i] # 200 /\ statuses[i] < 500 =>
        /\ i = Len(statuses)
        /\ FetchOver
        /\ Len(errors) = 1
        /\ errors[1] = (IF statuses[i] = Transport THEN "connection"
                        ELSE IF statuses[i] = 404 THEN "notfound" ELSE "status")
        /\ IsNone(json_data)

\* a 404 that follows a retried 5xx
C8_Witness ==
    /\ pc = "fetched"
    /\ statuses = <<500, 404>>
    /\ errors = <<"notfound">>

\* ------------------------------------------------------------------ C9
\* C9 as stated: a fetch that ends in a reported failure leaves the held
\* payload unchanged.
C9_KeptOnFailure ==
    [][pc = "fetch" /\ pc' = "fetched" /\ errors' # <<>> => json_data' = json_data]_vars

\* C9 amended: the held payload is what the latest fetch returned: a fetch
\* that ends in a reported failure leaves no payload held, whatever was held
\* before, and a fetch that succeeds holds the payload it received.
C9_ReplacedByResult ==
    [][pc = "fetch" /\ pc' = "fetched" =>
          IF errors' # <<>> THEN IsNone(json_data') ELSE json_data' \in SamplePayloads]_vars

\* a failed fetch after a run that had built a table from a payload
C9_Witness ==
    /\ pc = "fetched"
    /\ errors # <<>>
    /\ IsNone(json_data)
    /\ ~df_history.empty

====
